---- MODULE Spec2Model ----
(***************************************************************************)
(* SubVerter: the adaptive chunked-translation pipeline.                   *)
(*                                                                         *)
(* Texts are sequences of one-character tokens:                            *)
(*   "E"  an entry label "ENTRY <n>:" (the marker of prompt_utils)         *)
(*   "n"  a line break, "s" a blank, "R" a carriage return                 *)
(*   any other token is a visible character of the text.                   *)
(* Block ranges are 0-based (start, end) pairs as in srt_utils; sequences  *)
(* of entries are 1-based, so entry i of the code is entries[i + 1].       *)
(***************************************************************************)
EXTENDS Integers, Sequences, FiniteSets, TLC

\* ------------------------------------------------------------------ bounds
MaxUnits == 2
MaxChunkUnits == 3
MaxUnitLen == 2
MaxBudget == 9
MaxReplyLen == 1
MaxSummaryReplyLen == 2
MaxSummaryChars == 1
MaxCtxUnits == 5
MaxWindow == 3
MaxRefineUnits == 4
MaxMismatchUnits == 8

\* ------------------------------------------------------- program constants
CharLimitCap == 7500
SeparatorLen == 2
ContextWindow == 5

\* ------------------------------------------------------------- str methods
\* "R" is a carriage return
IsSpace(c) == c \in {"n", "s", "R"}

RECURSIVE LStrip(_)
LStrip(t) ==
    IF t = <<>> THEN <<>>
    ELSE IF IsSpace(Head(t)) THEN LStrip(Tail(t)) ELSE t

RECURSIVE RStrip(_)
RStrip(t) ==
    IF t = <<>> THEN <<>>
    ELSE IF IsSpace(t[Len(t)]) THEN RStrip(SubSeq(t, 1, Len(t) - 1)) ELSE t

Strip(t) == RStrip(LStrip(t))

RECURSIVE SplitAcc(_, _, _)
SplitAcc(t, sep, cur) ==
    IF Len(t) < Len(sep) THEN <<cur \o t>>
    ELSE IF SubSeq(t, 1, Len(sep)) = sep
         THEN <<cur>> \o SplitAcc(SubSeq(t, Len(sep) + 1, Len(t)), sep, <<>>)
         ELSE SplitAcc(Tail(t), sep, Append(cur, Head(t)))

\* str.split(sep) for a non-empty separator
Split(t, sep) == SplitAcc(t, sep, <<>>)

\* str.splitlines(): no empty last line for a text that ends with a line break
SplitLines(t) ==
    LET p == Split(t, <<"n">>)
    IN IF p[Len(p)] = <<>> THEN SubSeq(p, 1, Len(p) - 1) ELSE p

RECURSIVE Join(_, _)
Join(parts, sep) ==
    IF parts = <<>> THEN <<>>
    ELSE IF Len(parts) = 1 THEN parts[1]
    ELSE parts[1] \o sep \o Join(Tail(parts), sep)

MapStrip(parts) == [i \in 1..Len(parts) |-> Strip(parts[i])]

NonEmpty(p) == p # <<>>

NL == <<"n">>
BlankLine == <<"n", "n">>

\* ----------------------------------------------------------- srt_utils.py
SRTEntry(idx, start, end, text) ==
    [idx |-> idx, start |-> start, end |-> end, text |-> text]

\* the separator counted on both sides of an entry
entry_len_twice_sep(e) == Len(e.text) + 2 * SeparatorLen

entry_len_nosep(e) == Len(e.text)

entry_len_stripped(e) == Len(Strip(e.text)) + SeparatorLen

\* len(e.text) + 2: the blank-line separator is counted with every entry
entry_len(e) == Len(e.text) + SeparatorLen

close_block_at_i(start, i) == <<start, i>>

\* blocks.append((start, i - 1))
close_block(start, i) == <<start, i - 1>>

RECURSIVE build_loop(_, _, _, _, _, _)
build_loop(ents, char_limit, i, blocks, start, curr_len) ==
    IF i >= Len(ents) THEN [blocks |-> blocks, start |-> start, curr_len |-> curr_len]
    ELSE LET el == entry_len(ents[i + 1])
         IN IF curr_len = 0
            THEN build_loop(ents, char_limit, i + 1, blocks, i, el)
            ELSE IF curr_len + el <= char_limit
            THEN build_loop(ents, char_limit, i + 1, blocks, start, curr_len + el)
            ELSE build_loop(ents, char_limit, i + 1,
                            Append(blocks, close_block(start, i)), i, el)

build_blocks(ents, char_limit) ==
    LET r == build_loop(ents, char_limit, 0, <<>>, 0, 0)
    IN IF r.curr_len > 0
       THEN Append(r.blocks, <<r.start, Len(ents) - 1>>)
       ELSE r.blocks

Max(a, b) == IF a >= b THEN a ELSE b
Min(a, b) == IF a <= b THEN a ELSE b

\* texts of entries[lo .. hi - 1] (0-based, half-open as range(lo, hi))
TextsInRange(ents, lo, hi) ==
    IF hi <= lo THEN <<>> ELSE [k \in 1..(hi - lo) |-> ents[lo + k].text]

context_slice_unbounded(ents, start, end, prev_n, next_n) ==
    <<Strip(Join(TextsInRange(ents, 0, start), NL)),
      Strip(Join(TextsInRange(ents, end + 1, Len(ents)), NL))>>

context_slice(ents, start, end, prev_n, next_n) ==
    LET prev_lines == TextsInRange(ents, Max(0, start - prev_n), start)
        next_lines == TextsInRange(ents, end + 1, Min(Len(ents), end + 1 + next_n))
    IN <<Strip(Join(prev_lines, NL)), Strip(Join(next_lines, NL))>>

\* ----------------------------------------------------------- translator.py
RECURSIVE SplitBeforeLabels(_, _)
\* re.split(r'(?=ENTRY \d+:)', text): a cut in front of every label
SplitBeforeLabels(t, cur) ==
    IF t = <<>> THEN <<cur>>
    ELSE IF Head(t) = "E"
         THEN <<cur>> \o SplitBeforeLabels(Tail(t), <<"E">>)
         ELSE SplitBeforeLabels(Tail(t), Append(cur, Head(t)))

split_on_entry_labels(text) ==
    SelectSeq(MapStrip(SplitBeforeLabels(text, <<>>)), NonEmpty)

split_on_double_newline(text) ==
    SelectSeq(MapStrip(Split(text, BlankLine)), NonEmpty)

\* ENTRY_LABEL_RE.sub("", line): a label at the very start of the line goes,
\* with the blanks that follow it
RemoveLabel(line) ==
    IF line # <<>> /\ Head(line) = "E" THEN LStrip(Tail(line)) ELSE line

strip_entry_labels(text) ==
    LET lines == SplitLines(text)
        cleaned_lines == [i \in 1..Len(lines) |-> Strip(RemoveLabel(lines[i]))]
    IN Strip(Join(cleaned_lines, NL))

validate_block_count(orig_count, translated_block_text) ==
    Len(split_on_entry_labels(translated_block_text)) = orig_count

NonBlankLine(l) == Strip(l) # <<>>

non_empty_lines(resp) == SelectSeq(SplitLines(resp), NonBlankLine)

\* len(non_empty_lines) == 1 and not ...lstrip().upper().startswith("ENTRY")
is_refusal(resp) ==
    LET ls == non_empty_lines(resp)
    IN Len(ls) = 1 /\ Head(LStrip(ls[1])) # "E"

\* A generator outcome: it raises, returns None or "" (both falsy), or a text.
Raise == [kind |-> "raise", text |-> <<>>]
Null == [kind |-> "null", text |-> <<>>]
Reply(t) == [kind |-> "text", text |-> t]

\* cleaned_parts = [strip_entry_labels(part) for part in parts]
cleaned_parts(parts) == [i \in 1..Len(parts) |-> strip_entry_labels(parts[i])]

\* attempt_block_translation up to the classification of the reply
attempt_block_translation(k, o) ==
    IF o.kind = "raise"
    THEN [success |-> FALSE, text |-> <<>>, refusal |-> TRUE, mismatch |-> FALSE,
          parts |-> <<>>]
    ELSE IF o.kind = "null"
    THEN [success |-> FALSE, text |-> <<>>, refusal |-> TRUE, mismatch |-> FALSE,
          parts |-> <<>>]
    ELSE LET parts == split_on_entry_labels(o.text)
         IN IF validate_block_count(k, Join(parts, BlankLine))
            THEN [success |-> TRUE,
                  text |-> Join(cleaned_parts(parts), BlankLine),
                  refusal |-> FALSE, mismatch |-> FALSE, parts |-> parts]
            ELSE IF is_refusal(o.text)
            THEN [success |-> FALSE, text |-> <<>>, refusal |-> TRUE,
                  mismatch |-> FALSE, parts |-> parts]
            ELSE [success |-> FALSE, text |-> <<>>, refusal |-> FALSE,
                  mismatch |-> TRUE, parts |-> parts]

\* the number of ENTRY labels in a reply
CountMarkers(t) == Cardinality({i \in 1..Len(t) : t[i] = "E"})

\* a per-unit path that wants exactly one label in the reply
fallback_entry_counted(o) ==
    IF o.kind # "text" \/ CountMarkers(o.text) # 1 THEN [ok |-> FALSE, line |-> <<>>]
    ELSE IF is_refusal(o.text) THEN [ok |-> FALSE, line |-> <<>>]
    ELSE LET lines == split_on_double_newline(o.text)
             translated_line == IF lines # <<>> THEN lines[1] ELSE Strip(o.text)
         IN [ok |-> TRUE, line |-> strip_entry_labels(translated_line)]

\* one pass of the loop of translate_block_fallback_per_entry
fallback_entry(o) ==
    IF o.kind # "text" THEN [ok |-> FALSE, line |-> <<>>]
    ELSE IF is_refusal(o.text) THEN [ok |-> FALSE, line |-> <<>>]
    ELSE LET lines == split_on_double_newline(o.text)
             translated_line == IF lines # <<>> THEN lines[1] ELSE Strip(o.text)
         IN [ok |-> TRUE, line |-> strip_entry_labels(translated_line)]

seg_text_len(ents, lo, hi) ==
    LET RECURSIVE sum(_)
        sum(i) == IF i > hi THEN 0 ELSE Len(ents[i].text) + sum(i + 1)
    IN sum(lo)

always_fallback(text_len, n, floor) == TRUE

use_fallback_strict(text_len, n, floor) == text_len < floor \/ n <= 1

use_fallback_below_one(text_len, n, floor) == text_len <= floor \/ n < 1

use_fallback_len_only(text_len, n, floor) == text_len <= floor

\* seg_text_len <= min_char_limit or len(seg_entries) <= 1
use_fallback(text_len, n, floor) == text_len <= floor \/ n <= 1

swallow_failed_fallback(failed) == FALSE

\* if translated is None: raise RuntimeError(...)
fallback_raises(failed) == failed

\* the summary is taken off the limit before the limit is capped
effective_limit_cap_last(limit, smax, floor) ==
    LET e == Min(limit - smax, CharLimitCap)
    IN IF e < floor THEN floor ELSE e

effective_limit(limit, smax, floor) ==
    LET e == Min(limit, CharLimitCap) - smax
    IN IF e < floor THEN floor ELSE e

keep_whole_summary(new_summary, smax) == Strip(new_summary)

\* new_summary.strip()[:summary_max_chars]
truncate_summary(new_summary, smax) ==
    LET s == Strip(new_summary) IN SubSeq(s, 1, Min(Len(s), smax))

\* pipeline.py: the re-segmentation of the joined blocks
resegment(translations) == MapStrip(Split(Join(translations, BlankLine), BlankLine))

\* ------------------------------------------------------------------- state
VARIABLES
    entries,              \* the parsed unit sequence
    entriesB,             \* a second unit sequence (chunk builder comparisons)
    char_limit,           \* cfg max_char_limit
    summary_max_chars,    \* cfg summary_max_chars
    min_char_limit,       \* cfg min_char_limit
    effective_char_limit, \* the budget handed to build_blocks
    blocks,               \* build_blocks(entries, effective_char_limit)
    blocksB,              \* build_blocks(entriesB, effective_char_limit)
    pc,                   \* position of the run
    bi,                   \* 1-based number of the block in work
    translations,         \* the driver's list of block texts
    rolling_summary,
    stack,                \* progressive_refine invocations, innermost last
    result,               \* what translate_entries_with_context returned
    error,                \* the exception that left translate_entries_with_context
    translated_chunks,    \* run_pipeline's per-unit segments
    output_written,       \* the output file exists
    requests,             \* flips with every generator request issued
    expected,             \* per unit: the accepted translation of that unit
    last,                 \* the last generator request and how it ended
    failed_unit,          \* the per-unit fallback request that failed, if any
    leaf,                 \* how the last progressive_refine leaf ended
    window,               \* prev_n = next_n of the context_slice call
    debug_files,          \* the diagnostic dumps in the movie folder
    log,                  \* the generator requests issued so far, in order
    covered,              \* per unit: the invocations that resolved it without bisecting
    cancel_requested,     \* the block in work when the user asked to stop, or 0
    disk,                 \* the output path and its backup names: what each holds
    files,                \* the batch given to run_pipeline
    file_pos,             \* 1-based position of the loop over the batch
    file_status,          \* per file: how its turn of the loop ended
    cleaned,              \* per file: the finally block of its turn has run
    tmp_files,            \* temporary files on disk: <<file, name>>
    raw_text,             \* reformat_subtitle_text: the text to reformat
    max_width,            \* reformat_subtitle_text: characters per line
    max_lines,            \* reformat_subtitle_text: lines allowed
    formatted,            \* reformat_subtitle_text: the text returned
    tagged,               \* probe_mkv_subtitles: the tracks with a usable tag
    untagged_ids,         \* probe_mkv_subtitles: the ids of the other tracks
    allowed_src_langs_ordered, \* the allowed source languages, best first
    asked,                \* the user was shown a menu
    menu,                 \* the track ids of the menu, in its order
    chosen,               \* the id of the track picked, or 0
    track_id              \* the id select_mkv_subtitle returns, or 0 for None

\* the state of run_pipeline around the translation of one file
pipeline_vars == <<disk, files, file_pos, file_status, cleaned, tmp_files,
                   raw_text, max_width, max_lines, formatted, tagged,
                   untagged_ids, allowed_src_langs_ordered, asked, menu, chosen,
                   track_id>>

\* the state of the translation of one file, its position apart
run_vars == <<entries, entriesB, char_limit, summary_max_chars, min_char_limit,
              effective_char_limit, blocks, blocksB, bi, translations,
              rolling_summary, stack, result, error, translated_chunks,
              output_written, requests, expected, last, failed_unit, leaf,
              window, debug_files, log, covered, cancel_requested>>

vars == <<entries, entriesB, char_limit, summary_max_chars, min_char_limit,
          effective_char_limit, blocks, blocksB, pc, bi, translations,
          rolling_summary, stack, result, error, translated_chunks,
          output_written, requests, expected, last, failed_unit, leaf,
          window, debug_files, log, covered, cancel_requested, pipeline_vars>>

\* ------------------------------------------------------------------ inputs
Alphabet == {"E", "n", "a"}
SummaryAlphabet == {"x", "s"}

SeqsUpTo(S, n) == UNION {[1..k -> S] : k \in 0..n}

\* "ENTRY 1: a", a blank line, "a": one labelled segment of two paragraphs
TwoParagraphs == <<"E", "a", "n", "n", "a">>

\* "ENTRY 1:" and "ENTRY 2:" with empty segments: the shortest reply with two
\* labels
TwoLabels == <<"E", "E">>

\* text in front of the only label
LeadingText == <<"a", "E">>

Replies ==
    (SeqsUpTo(Alphabet, MaxReplyLen) \ {<<>>})
        \cup {TwoParagraphs, TwoLabels, LeadingText}
SummaryReplies == SeqsUpTo(SummaryAlphabet, MaxSummaryReplyLen) \ {<<>>}

GenOutcomes == {Raise, Null} \cup {Reply(t) : t \in Replies}
SummaryOutcomes == {Raise, Null} \cup {Reply(t) : t \in SummaryReplies}

UnitChar == <<"p", "q", "r", "t", "u", "v">>

Repeat(c, n) == [k \in 1..n |-> c]

\* unit i (1-based) of a parsed file: increasing ids, its own text
MakeEntries(lens, chars, idBase) ==
    [i \in 1..Len(lens) |->
        SRTEntry(idBase + i - 1, 10 * (idBase + i), 10 * (idBase + i) + 5,
                 Repeat(chars[i], lens[i]))]

NoResult == [tag |-> "pending", list |-> <<>>]
NoError == [kind |-> "none", lo |-> 0, hi |-> 0]
NoLast == [kind |-> "none", outcome |-> "none", long |-> FALSE, before |-> <<>>,
           reply |-> "none", k |-> 0, text_len |-> 0, all_marked |-> FALSE,
           refusal_line |-> FALSE, write |-> "none"]
NoFailure == [lo |-> 0, hi |-> 0, unit |-> 0, requests |-> FALSE]
NoLeaf == [kind |-> "none", n |-> 0, text_len |-> 0]

MaxBackups == 2

\* out_path is name 0; out_path.with_suffix(out_path.suffix + ".old") is name
\* 1 and out_path.with_suffix(out_path.suffix + f".old.{counter}") is name
\* counter + 1
out_path == 0
Names == 0..(MaxBackups + 2)

\* Init of a part of the program: the state that part g does not use is at
\* rest; the translation of a file starts from empty lists
AtRest(g) ==
    /\ IF g = "run" THEN TRUE
       ELSE /\ entries = <<>>
            /\ entriesB = <<>>
            /\ char_limit = 0
            /\ summary_max_chars = 0
            /\ min_char_limit = 0
            /\ effective_char_limit = 0
            /\ window = ContextWindow
    /\ blocks = <<>>
    /\ blocksB = <<>>
    /\ bi = 0
    /\ translations = <<>>
    /\ rolling_summary = <<>>
    /\ stack = <<>>
    /\ result = NoResult
    /\ error = NoError
    /\ translated_chunks = <<>>
    /\ output_written = FALSE
    /\ requests = FALSE
    /\ expected = [i \in 1..Len(entries) |-> <<>>]
    /\ last = NoLast
    /\ failed_unit = NoFailure
    /\ leaf = NoLeaf
    /\ debug_files = {}
    /\ log = <<>>
    /\ covered = [i \in 1..Len(entries) |-> 0]
    /\ cancel_requested = 0
    /\ IF g = "write" THEN TRUE ELSE disk = [k \in Names |-> "absent"]
    /\ IF g = "batch" THEN TRUE
       ELSE /\ files = <<>>
            /\ file_pos = 0
            /\ file_status = <<>>
            /\ cleaned = <<>>
            /\ tmp_files = {}
    /\ IF g = "reformat" THEN TRUE
       ELSE /\ raw_text = <<>>
            /\ max_width = 0
            /\ max_lines = 0
            /\ formatted = <<>>
    /\ IF g = "mkv" THEN TRUE
       ELSE /\ tagged = <<>>
            /\ untagged_ids = <<>>
            /\ allowed_src_langs_ordered = <<>>
            /\ asked = FALSE
            /\ menu = <<>>
            /\ chosen = 0
            /\ track_id = 0

InitRest == AtRest("run")

RunLens == {1}
RunCharLimits == {5, 11}
RunFloors == {0, 2}

\* run_pipeline has parsed a non-empty file and read its configuration
Init ==
    /\ \E n \in 1..MaxUnits : \E lens \in [1..n -> RunLens] :
          entries = MakeEntries(lens, UnitChar, 1)
    /\ entriesB = <<>>
    /\ char_limit \in RunCharLimits
    /\ summary_max_chars \in 0..MaxSummaryChars
    /\ min_char_limit \in RunFloors
    /\ effective_char_limit = 0
    /\ window = ContextWindow
    /\ pc = "call"
    /\ InitRest

\* ----------------------------------------------------- progressive_refine
Frame(lo, hi, limit, depth, summary, prev_ctx, next_ctx) ==
    [lo |-> lo, hi |-> hi, phase |-> "attempt", out_parts |-> <<>>,
     left_text |-> <<>>, limit |-> limit, depth |-> depth,
     summary |-> summary, prev_ctx |-> prev_ctx, next_ctx |-> next_ctx]

Top == stack[Len(stack)]
Below == SubSeq(stack, 1, Len(stack) - 1)

mid_rounded_up(f) == (f.hi - f.lo + 2) \div 2

\* mid = len(seg_entries) // 2
Mid(f) == (f.hi - f.lo + 1) \div 2

\* a child that takes the context of its own units
child_own_context(f, lo, hi) ==
    Frame(lo, hi, Max(min_char_limit, f.limit \div 2), f.depth + 1, f.summary,
          context_slice(entries, lo - 1, hi - 1, window, window)[1],
          context_slice(entries, lo - 1, hi - 1, window, window)[2])

\* the halves in the wrong order: the range mirrored within its parent
child_mirrored(f, lo, hi) ==
    Frame(f.lo + f.hi - hi, f.lo + f.hi - lo, Max(min_char_limit, f.limit \div 2),
          f.depth + 1, f.summary, f.prev_ctx, f.next_ctx)

Child(f, lo, hi) ==
    Frame(lo, hi, Max(min_char_limit, f.limit \div 2), f.depth + 1,
          f.summary, f.prev_ctx, f.next_ctx)

\* a left half that is one unit too long
left_child_overlap(f) == Child(f, f.lo, f.lo + Mid(f))

LeftChild(f) == Child(f, f.lo, f.lo + Mid(f) - 1)
\* a right half that starts one unit early
right_child_overlap(f) == Child(f, f.lo + Mid(f) - 1, f.hi)

RightChild(f) == Child(f, f.lo + Mid(f), f.hi)

join_right_left(left_text, right_text) == Join(<<right_text, left_text>>, BlankLine)

\* "\n\n".join([left_text, right_text])
join_halves(left_text, right_text) == Join(<<left_text, right_text>>, BlankLine)

RECURSIVE unwind(_, _)
\* a progressive_refine invocation returns `text` to the invocations in `stk`
unwind(stk, text) ==
    IF stk = <<>> THEN [stack |-> <<>>, done |-> TRUE, text |-> text]
    ELSE LET f == stk[Len(stk)]
             rest == SubSeq(stk, 1, Len(stk) - 1)
         IN IF f.phase = "left"
            THEN [stack |-> rest \o <<[f EXCEPT !.phase = "right", !.left_text = text],
                                       RightChild(f)>>,
                  done |-> FALSE, text |-> <<>>]
            ELSE unwind(rest, join_halves(f.left_text, text))

\* a driver that asks for a summary after the last block as well
deliver_always_summary(text) ==
    LET u == unwind(Below, text)
        appended == Append(translations, Strip(u.text))
    IN /\ stack' = u.stack
       /\ IF u.done
          THEN /\ translations' = appended
               /\ pc' = "summary" /\ result' = result
          ELSE UNCHANGED <<translations, pc, result>>

\* the invocation on top of the stack returns `text`; when it was the block's
\* own invocation the driver appends the block and goes on
Deliver(text) ==
    LET u == unwind(Below, text)
        appended == Append(translations, Strip(u.text))
    IN /\ stack' = u.stack
       /\ IF u.done
          THEN /\ translations' = appended
               /\ IF bi < Len(blocks)
                  THEN pc' = "summary" /\ result' = result
                  ELSE pc' = "returned" /\ result' = [tag |-> "list", list |-> appended]
          ELSE UNCHANGED <<translations, pc, result>>

\* how the two open(..., "w") of a Mismatch end: both dumps are written, or
\* one of them raises OSError (the dumps are never read back by the program)
DebugWrites == {"ok", "fail_input", "fail_output"}

\* translate_entries_with_context up to the loop over the blocks
Start ==
    /\ pc = "call"
    /\ LET e == effective_limit(char_limit, summary_max_chars, min_char_limit)
           b == build_blocks(entries, e)
       IN /\ effective_char_limit' = e
          /\ blocks' = b
          /\ IF b = <<>>
             THEN pc' = "returned" /\ bi' = 0 /\ result' = [tag |-> "list", list |-> <<>>]
             ELSE pc' = "block" /\ bi' = 1 /\ result' = result
    /\ translations' = <<>>
    /\ rolling_summary' = <<>>
    /\ UNCHANGED <<entries, entriesB, char_limit, summary_max_chars, min_char_limit,
                   blocksB, stack, error, translated_chunks,
                   output_written, requests, expected, last, failed_unit, leaf,
                   window, debug_files, log, covered, cancel_requested, pipeline_vars>>

slice_in_place(ents, start, end) == SubSeq(ents, start + 1, end + 1)

\* block_entries = entries[start:end + 1]: the slice is a new list and the list
\* it is taken from stays as it was
after_slice(ents, start, end) == ents

\* the block's entries, its context and its summary: the first invocation of
\* progressive_refine for block k
Slice(k) ==
    LET start == blocks[k][1]
        end == blocks[k][2]
        ctx == context_slice(entries, start, end, window, window)
    IN /\ entries' = after_slice(entries, start, end)
       /\ stack' = <<Frame(start + 1, end + 1, effective_char_limit, 0,
                           rolling_summary, ctx[1], ctx[2])>>

\* the top of one loop iteration
BeginBlock ==
    /\ pc = "block"
    /\ Slice(bi)
    /\ pc' = "refine"
    /\ UNCHANGED <<entriesB, char_limit, summary_max_chars, min_char_limit,
                   effective_char_limit, blocks, blocksB, bi, translations,
                   rolling_summary, result, error, translated_chunks,
                   output_written, requests, expected, last, failed_unit, leaf,
                   window, debug_files, log, covered, cancel_requested, pipeline_vars>>

\* movie_folder / f"subtitles_{start_idx}-{end_idx}_input_en.txt"
in_file(start_idx, end_idx) == [lo |-> start_idx, hi |-> end_idx, kind |-> "input"]

\* movie_folder / f"subtitles_{start_idx}-{end_idx}_output_nl.txt"
out_file(start_idx, end_idx) == [lo |-> start_idx, hi |-> end_idx, kind |-> "output"]

\* what the two open(..., "w") leave in the folder: the second is not reached
\* when the first raises
written_files(w, start_idx, end_idx) ==
    IF w = "ok" THEN {in_file(start_idx, end_idx), out_file(start_idx, end_idx)}
    ELSE IF w = "fail_output" THEN {in_file(start_idx, end_idx)}
    ELSE {}

\* what a generator request is made of: the prompt's units (1-based positions
\* lo..hi of entries), its summary and its context, for block b at depth d
Request(kind, b, lo, hi, d, summary, prev_ctx, next_ctx) ==
    [kind |-> kind, bi |-> b, lo |-> lo, hi |-> hi, depth |-> d,
     summary |-> summary, prev_ctx |-> prev_ctx, next_ctx |-> next_ctx]

\* units lo..hi are resolved by one more invocation
Cover(c, lo, hi) ==
    [i \in DOMAIN c |-> IF lo <= i /\ i <= hi THEN c[i] + 1 ELSE c[i]]

\* progressive_refine: one attempt on the subset as a block, then success,
\* per-unit mode or bisection; the generator answers with an outcome of O
Attempt(O) ==
    /\ pc = "refine"
    /\ stack # <<>>
    /\ Top.phase = "attempt"
    /\ \E o \in O :
         LET f == Top
             k == f.hi - f.lo + 1
             r == attempt_block_translation(k, o)
             len == seg_text_len(entries, f.lo, f.hi)
         IN /\ requests' = ~requests
            /\ log' = Append(log, Request("attempt", bi, f.lo, f.hi, f.depth,
                                          f.summary, f.prev_ctx, f.next_ctx))
            /\ \E w \in IF r.mismatch THEN DebugWrites ELSE {"none"} :
                 /\ last' = [NoLast EXCEPT
                               !.kind = "attempt",
                               !.outcome = IF r.success THEN "success"
                                           ELSE IF r.refusal THEN "refusal"
                                           ELSE "mismatch",
                               !.reply = o.kind,
                               !.k = k,
                               !.text_len = len,
                               !.all_marked = (CountMarkers(o.text) = k),
                               !.refusal_line = (o.kind = "text" /\ is_refusal(o.text)),
                               !.write = w]
                 /\ debug_files' = debug_files \cup
                                      written_files(w, entries[f.lo].idx, entries[f.hi].idx)
                 /\ IF r.success
                    THEN /\ Deliver(r.text)
                         /\ expected' = [i \in 1..Len(entries) |->
                                            IF f.lo <= i /\ i <= f.hi
                                            THEN <<cleaned_parts(r.parts)[i - f.lo + 1]>>
                                            ELSE expected[i]]
                         /\ leaf' = [kind |-> "success", n |-> k, text_len |-> len]
                         /\ covered' = Cover(covered, f.lo, f.hi)
                         /\ UNCHANGED error
                    ELSE IF w \in {"fail_input", "fail_output"}
                    THEN /\ pc' = "raised"
                         /\ error' = [kind |-> "OSError", lo |-> entries[f.lo].idx,
                                      hi |-> entries[f.hi].idx]
                         /\ stack' = <<>>
                         /\ leaf' = [kind |-> "oserror", n |-> k, text_len |-> len]
                         /\ UNCHANGED <<translations, result, expected, covered>>
                    ELSE IF use_fallback(len, k, min_char_limit)
                    THEN /\ stack' = Below \o <<[f EXCEPT !.phase = "fallback"]>>
                         /\ leaf' = [kind |-> "fallback", n |-> k, text_len |-> len]
                         /\ covered' = Cover(covered, f.lo, f.hi)
                         /\ UNCHANGED <<pc, translations, result, expected, error>>
                    ELSE /\ stack' = Below \o <<[f EXCEPT !.phase = "left"], LeftChild(f)>>
                         /\ UNCHANGED <<pc, translations, result, expected, error, leaf,
                                        covered>>
    /\ UNCHANGED <<entries, entriesB, char_limit, summary_max_chars, min_char_limit,
                   effective_char_limit, blocks, blocksB, bi, rolling_summary,
                   translated_chunks, output_written, failed_unit, window,
                   cancel_requested, pipeline_vars>>

AttemptBlock == Attempt(GenOutcomes)

\* translate_block_fallback_per_entry: the request for the next unit of the
\* subset, and progressive_refine's return or raise when the loop ends
Fallback(O) ==
    /\ pc = "refine"
    /\ stack # <<>>
    /\ Top.phase = "fallback"
    /\ \E o \in O :
         LET f == Top
             k == f.hi - f.lo + 1
             unit == f.lo + Len(f.out_parts)
             r == fallback_entry(o)
             parts == Append(f.out_parts, r.line)
         IN /\ requests' = ~requests
            /\ log' = Append(log, Request("unit", bi, unit, unit, f.depth,
                                          f.summary, <<>>, <<>>))
            /\ last' = [NoLast EXCEPT
                          !.kind = "unit",
                          !.outcome = IF r.ok THEN "ok" ELSE o.kind,
                          !.reply = o.kind,
                          !.k = 1,
                          !.text_len = Len(entries[unit].text),
                          !.all_marked = (CountMarkers(o.text) = 1),
                          !.refusal_line = (o.kind = "text" /\ is_refusal(o.text))]
            /\ failed_unit' = IF r.ok THEN failed_unit
                              ELSE [lo |-> entries[f.lo].idx, hi |-> entries[f.hi].idx,
                                    unit |-> unit, requests |-> ~requests]
            /\ IF fallback_raises(~r.ok)
               THEN /\ pc' = "raised"
                    /\ error' = [kind |-> "RuntimeError", lo |-> entries[f.lo].idx,
                                 hi |-> entries[f.hi].idx]
                    /\ stack' = <<>>
                    /\ UNCHANGED <<translations, result, expected>>
               ELSE /\ expected' = [expected EXCEPT ![unit] = <<r.line>>]
                    /\ UNCHANGED error
                    /\ IF Len(parts) = k
                       THEN Deliver(Join(parts, BlankLine))
                       ELSE /\ stack' = Below \o <<[f EXCEPT !.out_parts = parts]>>
                            /\ UNCHANGED <<pc, translations, result>>
    /\ UNCHANGED <<entries, entriesB, char_limit, summary_max_chars, min_char_limit,
                   effective_char_limit, blocks, blocksB, bi, rolling_summary,
                   translated_chunks, output_written, leaf, window, debug_files,
                   covered, cancel_requested, pipeline_vars>>

FallbackEntry == Fallback(GenOutcomes)

\* the rolling-summary request after a block that is not the last one
Summary(O) ==
    /\ pc = "summary"
    /\ \E o \in O :
         /\ requests' = ~requests
         /\ log' = Append(log, Request("summary", bi, blocks[bi][1] + 1,
                                       blocks[bi][2] + 1, 0, rolling_summary,
                                       <<>>, <<>>))
         /\ last' = [NoLast EXCEPT
                       !.kind = "summary",
                       !.outcome = o.kind,
                       !.reply = o.kind,
                       !.long = Len(Strip(o.text)) > summary_max_chars,
                       !.text_len = Len(o.text),
                       !.before = rolling_summary]
         /\ IF o.kind = "raise"
            THEN /\ pc' = "returned"
                 /\ result' = [tag |-> "None", list |-> <<>>]
                 /\ UNCHANGED <<rolling_summary, bi>>
            ELSE /\ rolling_summary' =
                      IF o.kind = "text"
                      THEN truncate_summary(o.text, summary_max_chars)
                      ELSE rolling_summary
                 /\ bi' = bi + 1
                 /\ pc' = "block"
                 /\ UNCHANGED result
    /\ UNCHANGED <<entries, entriesB, char_limit, summary_max_chars, min_char_limit,
                   effective_char_limit, blocks, blocksB, translations, stack, error,
                   translated_chunks, output_written, expected,
                   failed_unit, leaf, window, debug_files, covered,
                   cancel_requested, pipeline_vars>>

UpdateSummary == Summary(SummaryOutcomes)

\* a recovery that cuts a surplus and leaves a shortfall as it is
recover_cut_only(chunks, n) == SubSeq(chunks, 1, Min(Len(chunks), n))

\* run_pipeline: "attempting recovery" pads or cuts to one segment per unit
recover(chunks, n) ==
    IF Len(chunks) < n
    THEN chunks \o [i \in 1..(n - Len(chunks)) |-> <<>>]
    ELSE SubSeq(chunks, 1, n)

\* for e, t in zip(entries, translated_chunks): final_entries.append((e.idx,
\* e.start, e.end, formatted)), one record of the output file each; zip stops
\* at the shorter of the two lists; seg is the segment given to the reformatter
final_entries(ents, chunks) ==
    [k \in 1..Min(Len(ents), Len(chunks)) |->
        [idx |-> ents[k].idx, start |-> ents[k].start, end |-> ents[k].end,
         seg |-> chunks[k]]]

\* run_pipeline after translate_entries_with_context has returned or raised
Finish ==
    /\ pc \in {"returned", "raised"}
    /\ IF pc = "raised" \/ result.tag = "None" \/ result.list = <<>>
       THEN pc' = "stopped" /\ UNCHANGED <<translated_chunks, output_written>>
       ELSE /\ translated_chunks' = recover(resegment(result.list), Len(entries))
            /\ output_written' = TRUE
            /\ pc' = "written"
    /\ UNCHANGED <<entries, entriesB, char_limit, summary_max_chars, min_char_limit,
                   effective_char_limit, blocks, blocksB, bi, translations,
                   rolling_summary, stack, result, error, requests,
                   expected, last, failed_unit, leaf, window, debug_files, log, covered, cancel_requested, pipeline_vars>>

Next ==
    \/ Start
    \/ BeginBlock
    \/ AttemptBlock
    \/ FallbackEntry
    \/ UpdateSummary
    \/ Finish

Spec == Init /\ [][Next]_vars

\* -------------------------------------------- the chunk builder on its own
UnitLens == (0..MaxUnitLen) \cup {10}
Budgets == (0..MaxBudget) \cup {25}
ContentChars == {"a", "s"}

\* two parsed files whose units have pairwise the same text lengths and differ
\* in what the texts hold, in their ids and in their timestamps
InitChunk ==
    /\ \E n \in 0..MaxChunkUnits : \E lens \in [1..n -> UnitLens] :
       \E cA \in ContentChars, cB \in ContentChars, idB \in {1, 7} :
          /\ entries = MakeEntries(lens, [i \in 1..n |-> cA], 1)
          /\ entriesB = MakeEntries(lens, [i \in 1..n |-> cB], idB)
    /\ effective_char_limit \in Budgets
    /\ char_limit = 0
    /\ summary_max_chars = 0
    /\ min_char_limit = 0
    /\ window = ContextWindow
    /\ pc = "chunk"
    /\ InitRest

BuildBoth ==
    /\ pc = "chunk"
    /\ blocks' = build_blocks(entries, effective_char_limit)
    /\ blocksB' = build_blocks(entriesB, effective_char_limit)
    /\ pc' = "chunked"
    /\ UNCHANGED <<entries, entriesB, char_limit, summary_max_chars, min_char_limit,
                   effective_char_limit, bi, translations, rolling_summary, stack,
                   result, error, translated_chunks, output_written, requests,
                   expected, last, failed_unit, leaf, window, debug_files, log, covered, cancel_requested, pipeline_vars>>

NextChunk == BuildBoth

SpecChunk == InitChunk /\ [][NextChunk]_vars

\* ------------------------------------- the context of a block on its own
CtxLens == {1, 2}
CtxBudgets == {3, 7, 12}

\* a parsed file, a budget and a window
InitContext ==
    /\ \E n \in 1..MaxCtxUnits : \E lens \in [1..n -> CtxLens] :
          entries = MakeEntries(lens, UnitChar, 1)
    /\ entriesB = <<>>
    /\ effective_char_limit \in CtxBudgets
    /\ window \in 0..MaxWindow
    /\ char_limit = 0
    /\ summary_max_chars = 0
    /\ min_char_limit = 0
    /\ pc = "context"
    /\ InitRest

\* blocks = build_blocks(entries, effective_char_limit)
ChunkContext ==
    /\ pc = "context"
    /\ blocks' = build_blocks(entries, effective_char_limit)
    /\ pc' = "block"
    /\ UNCHANGED <<entries, entriesB, char_limit, summary_max_chars, min_char_limit,
                   effective_char_limit, blocksB, bi, translations, rolling_summary,
                   stack, result, error, translated_chunks, output_written, requests,
                   expected, last, failed_unit, leaf, window, debug_files, log, covered, cancel_requested, pipeline_vars>>

\* the loop top for any one block of the file
SliceContext ==
    /\ pc = "block"
    /\ \E k \in 1..Len(blocks) : bi' = k /\ Slice(k)
    /\ pc' = "sliced"
    /\ UNCHANGED <<entriesB, char_limit, summary_max_chars, min_char_limit,
                   effective_char_limit, blocks, blocksB, translations,
                   rolling_summary, result, error, translated_chunks,
                   output_written, requests, expected, last, failed_unit, leaf,
                   window, debug_files, log, covered, cancel_requested, pipeline_vars>>

NextContext == ChunkContext \/ SliceContext

SpecContext == InitContext /\ [][NextContext]_vars

\* ------------------------------------------------- the end-to-end scenario
\* 12 units of about 80 characters, a budget of 300, and a generator stub that
\* translates unit i to the character TrChar[i]
ScenarioLens == {78, 80, 82}
ScenarioFloors == {0, 100, 239, 240, 300}
ScenarioLimits == {300, 800}
TrChar == <<"a", "b", "c", "d", "e", "f", "g", "h", "i", "j", "k", "l">>

InitScenario ==
    /\ \E len \in ScenarioLens :
          entries = MakeEntries([i \in 1..12 |-> len], [i \in 1..12 |-> "p"], 1)
    /\ entriesB = <<>>
    /\ char_limit \in ScenarioLimits
    /\ summary_max_chars = char_limit - 300
    /\ min_char_limit \in ScenarioFloors
    /\ effective_char_limit = 0
    /\ window = ContextWindow
    /\ pc = "call"
    /\ InitRest

\* "ENTRY 1: <unit lo>", "ENTRY 2: <unit lo + 1>", ... one per line
StubReplyFor(lo, hi) ==
    Join([j \in 1..(hi - lo + 1) |-> <<"E", TrChar[lo + j - 1]>>], NL)

\* the stub answers the first request for chunk 2 with one segment too few and
\* every other request with one labelled segment per unit
StubAttemptOutcome ==
    IF bi = 2 /\ Top.depth = 0
    THEN Reply(StubReplyFor(Top.lo, Top.hi - 1))
    ELSE Reply(StubReplyFor(Top.lo, Top.hi))

StubUnitOutcome ==
    LET unit == Top.lo + Len(Top.out_parts) IN Reply(StubReplyFor(unit, unit))

StubSummaryOutcome == Reply(<<"x">>)

ScenarioAttempt == Attempt({StubAttemptOutcome})

ScenarioFallback == Fallback({StubUnitOutcome})

ScenarioSummary == Summary({StubSummaryOutcome})

NextScenario ==
    \/ Start
    \/ BeginBlock
    \/ ScenarioAttempt
    \/ ScenarioFallback
    \/ ScenarioSummary
    \/ Finish

SpecScenario == InitScenario /\ [][NextScenario]_vars

\* ------------------------------------------- the refiner on larger chunks
\* Files of up to MaxRefineUnits units in one chunk, in chunks of two units or
\* (units of 6 characters under the small budget) in chunks of one unit; the generator answers by kind: the right number of labelled
\* segments, one segment too many, or nothing.
\* the unit lengths of a file of n units: all of 1 character, a unit of 2 in
\* front of units of 1, or all of 6 characters
RefineLens(n) ==
    {[i \in 1..n |-> 1], [i \in 1..n |-> IF i = 1 THEN 2 ELSE 1], [i \in 1..n |-> 6]}
RefineCharLimits == {9, 101}
RefineFloors == {0, 2}

InitRefine ==
    /\ \E n \in 1..MaxRefineUnits : \E lens \in RefineLens(n) :
          entries = MakeEntries(lens, UnitChar, 1)
    /\ entriesB = <<>>
    /\ char_limit \in RefineCharLimits
    /\ summary_max_chars = 1
    /\ min_char_limit \in RefineFloors
    /\ effective_char_limit = 0
    /\ window = ContextWindow
    /\ pc = "call"
    /\ InitRest

\* a reply to an attempt on units lo..hi: one labelled segment per unit
\* (Success), one labelled segment more than asked for (Mismatch), nothing
RefineAttemptOutcomes ==
    {Reply(StubReplyFor(Top.lo, Top.hi)), Reply(StubReplyFor(Top.lo, Top.hi + 1)),
     Null}

\* a reply to a per-unit request: the unit's labelled translation, or nothing
RefineUnitOutcomes == {StubUnitOutcome, Null}

\* a reply to the summary request after block bi: a text of its own, nothing,
\* or an exception
RefineSummaryOutcomes == {Reply(<<TrChar[bi]>>), Null, Raise}

RefineAttempt == Attempt(RefineAttemptOutcomes)

RefineFallback == Fallback(RefineUnitOutcomes)

RefineSummary == Summary(RefineSummaryOutcomes)

NextRefine ==
    \/ Start
    \/ BeginBlock
    \/ RefineAttempt
    \/ RefineFallback
    \/ RefineSummary
    \/ Finish

SpecRefine == InitRefine /\ [][NextRefine]_vars

\* --------------------------------- a generator that fails on every chunk
\* Files of up to MaxMismatchUnits units; every reply to an attempt has one
\* labelled segment too many (a Mismatch) and every reply to a per-unit
\* request is that unit's translation.
MismatchFloors == {0, 1, 2, 3, 4, 8}

\* the unit lengths of a file of n units: all short, all long, or one long
\* unit in front of or behind short ones
MismatchLens(n) ==
    {[i \in 1..n |-> 1], [i \in 1..n |-> 2],
     [i \in 1..n |-> IF i = 1 THEN 2 ELSE 1],
     [i \in 1..n |-> IF i = n THEN 2 ELSE 1]}

InitMismatch ==
    /\ \E n \in 1..MaxMismatchUnits : \E lens \in MismatchLens(n) :
          entries = MakeEntries(lens, [i \in 1..n |-> "p"], 1)
    /\ entriesB = <<>>
    /\ char_limit \in RefineCharLimits
    /\ summary_max_chars = 1
    /\ min_char_limit \in MismatchFloors
    /\ effective_char_limit = 0
    /\ window = ContextWindow
    /\ pc = "call"
    /\ InitRest

MismatchAttempt == Attempt({Reply(StubReplyFor(Top.lo, Top.hi + 1))})

MismatchFallback == Fallback({StubUnitOutcome})

MismatchSummary == Summary({Reply(<<TrChar[bi]>>)})

NextMismatch ==
    \/ Start
    \/ BeginBlock
    \/ MismatchAttempt
    \/ MismatchFallback
    \/ MismatchSummary
    \/ Finish

SpecMismatch == InitMismatch /\ [][NextMismatch]_vars

\* ------------------------------------------ a request to stop during a run
\* The scenario run, during which the user asks once for the run to stop. The
\* loop of translate_entries_with_context reads no such request, so the
\* request changes nothing of the run.
Cancel ==
    /\ pc = "refine"
    /\ cancel_requested = 0
    /\ cancel_requested' = bi
    /\ UNCHANGED <<entries, entriesB, char_limit, summary_max_chars, min_char_limit,
                   effective_char_limit, blocks, blocksB, pc, bi, translations,
                   rolling_summary, stack, result, error, translated_chunks,
                   output_written, requests, expected, last, failed_unit, leaf,
                   window, debug_files, log, covered, pipeline_vars>>

NextCancel ==
    \/ Start
    \/ BeginBlock
    \/ ScenarioAttempt
    \/ ScenarioFallback
    \/ ScenarioSummary
    \/ Finish
    \/ Cancel

SpecCancel == InitScenario /\ [][NextCancel]_vars

\* ------------------------------------------------------------------ claims
TextLens(ents) == [i \in 1..Len(ents) |-> Len(ents[i].text)]

\* the size the builder charges a chunk: text length plus 2 for each unit
ChunkSize(ents, b) ==
    LET RECURSIVE sum(_)
        sum(i) == IF i > b[2] THEN 0 ELSE Len(ents[i + 1].text) + 2 + sum(i + 1)
    IN sum(b[1])

\* C8: the chunks are non-empty ranges in ascending order that start at unit 0,
\* follow one another without gap or overlap and end at the last unit, so every
\* unit is in exactly one chunk; a unit longer than the budget is a chunk of
\* its own; an empty sequence gives no chunks.
C8_ChunkPartition ==
    pc = "chunked" =>
        LET n == Len(entries)
            m == Len(blocks)
        IN /\ (n = 0) => (m = 0)
           /\ (n > 0) => (m > 0 /\ blocks[1][1] = 0 /\ blocks[m][2] = n - 1)
           /\ \A k \in 1..m : blocks[k][1] <= blocks[k][2]
           /\ \A k \in 1..(m - 1) : blocks[k + 1][1] = blocks[k][2] + 1
           /\ \A i \in 0..(n - 1) :
                 Cardinality({k \in 1..m : blocks[k][1] <= i /\ i <= blocks[k][2]}) = 1
           /\ \A i \in 0..(n - 1) :
                 Len(entries[i + 1].text) > effective_char_limit
                    => \E k \in 1..m : blocks[k] = <<i, i>>

C8_Witness ==
    /\ pc = "chunked"
    /\ Len(blocks) >= 2
    /\ \E k \in 1..Len(blocks) : blocks[k][1] < blocks[k][2]
    /\ \E i \in 1..Len(entries) : Len(entries[i].text) > effective_char_limit

\* C9: a chunk of two or more units has size at most the budget, a chunk over
\* the budget is a single unit, and lengths 10, 10, 10 with budget 25 give the
\* chunks (0,1) and (2,2).
C9_ChunkBudget ==
    pc = "chunked" =>
        /\ \A k \in 1..Len(blocks) :
              \/ ChunkSize(entries, blocks[k]) <= effective_char_limit
              \/ blocks[k][1] = blocks[k][2]
        /\ (TextLens(entries) = <<10, 10, 10>> /\ effective_char_limit = 25)
              => blocks = << <<0, 1>>, <<2, 2>> >>

C9_Witness ==
    /\ pc = "chunked"
    /\ TextLens(entries) = <<10, 10, 10>>
    /\ effective_char_limit = 25
    /\ blocks = << <<0, 1>>, <<2, 2>> >>

\* C10: two unit sequences with pairwise equal text lengths get the same chunk
\* boundaries for the same budget, whatever their texts, ids and timestamps.
C10_ContentIndependent ==
    (pc = "chunked" /\ TextLens(entries) = TextLens(entriesB)) => blocks = blocksB

C10_Witness ==
    /\ pc = "chunked"
    /\ Len(blocks) >= 2
    /\ \E k \in 1..Len(blocks) : blocks[k][1] < blocks[k][2]
    /\ \A i \in 1..Len(entries) :
          /\ entries[i].idx # entriesB[i].idx
          /\ entries[i].start # entriesB[i].start
          /\ Len(entries[i].text) > 0 => entries[i].text # entriesB[i].text
    /\ blocks = blocksB

Returned == pc = "returned" /\ result.tag = "list"

\* C1: when translate_entries_with_context returns a list of blocks, joining
\* the blocks with a blank line and splitting on blank lines gives exactly
\* len(entries) segments.
C1_CountPreserved ==
    Returned => Len(Split(Join(result.list, BlankLine), BlankLine)) = Len(entries)

\* C2: in a run that wrote its output, the i-th recovered segment is the
\* translation the generator gave for the i-th unit (the marker segment of the
\* accepted attempt, or the reply of the unit's own fallback request).
C2_OrderPreserved ==
    pc = "written" =>
        \A i \in 1..Len(entries) : expected[i] = <<translated_chunks[i]>>

\* C3: once a per-unit fallback request has failed, the run has halted with the
\* error naming the unit-id range of the subset that holds the failing unit: no
\* result list (not even a partial one) is returned, no further generator
\* request is issued, and no output file is written.
C3_FatalFallback ==
    failed_unit.unit # 0 =>
        /\ pc \in {"raised", "stopped"}
        /\ stack = <<>>
        /\ result = NoResult
        /\ error = [kind |-> "RuntimeError", lo |-> failed_unit.lo, hi |-> failed_unit.hi]
        /\ error.lo <= entries[failed_unit.unit].idx
        /\ entries[failed_unit.unit].idx <= error.hi
        /\ requests = failed_unit.requests
        /\ last.kind = "unit" /\ last.outcome # "ok"
        /\ ~output_written

C3_Witness ==
    /\ failed_unit.unit # 0
    /\ pc = "stopped"
    /\ translations # <<>>
    /\ last.outcome = "text"

\* C4: a refine call fails (the run aborts inside the refiner) only through a
\* failing per-unit fallback request; no chunk-level or sub-chunk-level attempt
\* makes it fail.
C4_OnlyFallbackFails ==
    pc = "raised" => (failed_unit.unit # 0 /\ last.kind = "unit")

\* C5: every leaf of the recursion is a successful attempt or a per-unit
\* fallback on a subset of one unit or of total text length at most
\* min_char_limit.
C5_LeavesSucceedOrFallBack ==
    \/ leaf.kind \in {"none", "success"}
    \/ /\ leaf.kind = "fallback"
       /\ leaf.n = 1 \/ leaf.text_len <= min_char_limit

\* C6: the rolling summary, and the summary every refine call carries into its
\* prompts, is never longer than summary_max_chars.
C6_SummaryBound ==
    /\ Len(rolling_summary) <= summary_max_chars
    /\ \A d \in 1..Len(stack) : Len(stack[d].summary) <= summary_max_chars

C6_Witness ==
    /\ pc = "refine"
    /\ last.kind = "summary"
    /\ last.long
    /\ summary_max_chars > 0
    /\ Len(Top.summary) = summary_max_chars

\* C7: when the summary request after a block fails (raises or returns nothing),
\* the rolling summary keeps its value and the driver goes on with the next
\* block, no result having been returned.
C7_SummaryFailureNonFatal ==
    (last.kind = "summary" /\ last.outcome \in {"raise", "null"}) =>
        /\ rolling_summary = last.before
        /\ pc \in {"block", "refine"}
        /\ result = NoResult

\* C11: no step of a run changes the entries list: its length and the idx,
\* start, end and text of every entry stay as they were, whether the run
\* succeeds, fails fatally or is aborted by an exception.
C11_EntriesReadOnly == [][entries' = entries]_vars

C11_Witness ==
    /\ pc \in {"written", "stopped"}
    /\ Len(entries) = 2
    /\ Len(blocks) = 1
    /\ leaf.kind = "fallback"
    /\ leaf.n = 1
    /\ last.kind = "unit"

\* the characters of a text
Chars(t) == {t[i] : i \in 1..Len(t)}

\* C12: for the block (start, end) of n units and window N, prev_text is made
\* of exactly the min(N, start) units just before the block, in order, and
\* next_text of exactly the min(N, n-1-end) units just after it, in order; no
\* unit of the block is in either, and the units come from the whole sequence,
\* whatever chunks they belong to.
C12_ContextWindow ==
    pc = "sliced" =>
        LET start == blocks[bi][1]
            end == blocks[bi][2]
            n == Len(entries)
            p == IF window <= start THEN window ELSE start
            q == IF window <= n - 1 - end THEN window ELSE n - 1 - end
            f == stack[1]
        IN /\ f.prev_ctx = Strip(Join([j \in 1..p |-> entries[start - p + j].text], NL))
           /\ f.next_ctx = Strip(Join([j \in 1..q |-> entries[end + 1 + j].text], NL))
           /\ \A i \in (start + 1)..(end + 1) :
                 Chars(entries[i].text) \cap (Chars(f.prev_ctx) \cup Chars(f.next_ctx)) = {}
           /\ \A i \in 1..n :
                 Chars(entries[i].text) \subseteq Chars(f.prev_ctx)
                    <=> (start - p < i /\ i <= start)
           /\ \A i \in 1..n :
                 Chars(entries[i].text) \subseteq Chars(f.next_ctx)
                    <=> (end + 1 < i /\ i <= end + 1 + q)

C12_Witness ==
    /\ pc = "sliced"
    /\ Len(blocks) >= 3
    /\ window > 0
    /\ blocks[bi][1] > window
    /\ Len(entries) - 1 - blocks[bi][2] > 0
    /\ Len(entries) - 1 - blocks[bi][2] < window
    /\ blocks[bi - 1][1] > blocks[bi][1] - window
    /\ Chars(entries[blocks[bi][1] - 1].text) \subseteq Chars(stack[1].prev_ctx)

\* the accepted translations of the units of block b, in unit order
UnitTexts(b) == [j \in 1..(b[2] - b[1] + 1) |-> expected[b[1] + j][1]]

\* C13: a returned list has one block per chunk of build_blocks, in chunk
\* order, and block k is the translations accepted for the units of chunk k,
\* and of no other chunk, joined by blank lines.
C13_OneBlockPerChunk ==
    Returned =>
        /\ Len(result.list) = Len(blocks)
        /\ blocks = build_blocks(entries, effective_char_limit)
        /\ \A k \in 1..Len(blocks) :
              result.list[k] = Strip(Join(UnitTexts(blocks[k]), BlankLine))

C13_Witness ==
    /\ Returned
    /\ Len(blocks) = 2
    /\ result.list[1] # result.list[2]
    /\ result.list[1] # <<>>
    /\ result.list[2] # <<>>

\* C14: an attempt on k units is a Success only when the reply holds exactly k
\* ENTRY labels, so that every segment of the success text is introduced by a
\* label and text in front of the first label is no segment.
C14_SuccessMeansMarkers ==
    (last.kind = "attempt" /\ last.outcome = "success") => last.all_marked

\* C15: when writing a diagnostic dump fails on a Mismatch, the attempt still
\* ends as a Mismatch and the refiner goes on (per-unit mode or bisection): no
\* exception leaves the attempt and the run is not aborted.
C15_WriteFailureSwallowed ==
    (last.kind = "attempt" /\ last.write \in {"fail_input", "fail_output"}) =>
        /\ last.outcome = "mismatch"
        /\ error = NoError
        /\ pc = "refine"
        /\ stack # <<>>

\* the number of units of a progressive_refine invocation
Size(f) == f.hi - f.lo + 1

C17_NullReplyIsMismatch ==
    (last.kind = "attempt" /\ last.reply = "null") =>
        /\ last.outcome = "mismatch"
        /\ pc = "refine"
        /\ Top.phase \in {"fallback", "attempt"}

\* C18: an attempt on a subset of any size whose reply is exactly one non-empty
\* line without the ENTRY label ends as a Refusal, never as a Success or a
\* Mismatch; it writes no diagnostic file and the refiner goes on in per-unit
\* mode or by bisection.
C18_RefusalShortCircuit ==
    (last.kind = "attempt" /\ last.refusal_line) =>
        /\ last.outcome = "refusal"
        /\ last.write = "none"
        /\ pc = "refine"
        /\ Top.phase \in {"fallback", "attempt"}

\* the invocation whose attempt has just ended as a Refusal or a Mismatch
Attempted == IF Top.phase = "fallback" THEN Top ELSE stack[Len(stack) - 1]

\* C19: an attempt writes diagnostic files exactly when it ends as a Mismatch,
\* and then the two of them (input dump and output dump) named by the first
\* and last unit id of its subset; the folder never holds one dump of a pair
\* without the other, and no step of the run removes a dump.
C19_DumpsExactlyOnMismatch ==
    /\ [](/\ last.kind = "attempt" =>
                (last.write = "ok" <=> last.outcome = "mismatch")
          /\ last.kind = "attempt" /\ last.write # "ok" /\ pc = "refine" =>
                last.write = "none"
          /\ (last.kind = "attempt" /\ last.write = "ok") =>
                \A kind \in {"input", "output"} :
                   [lo |-> entries[Attempted.lo].idx,
                    hi |-> entries[Attempted.hi].idx, kind |-> kind] \in debug_files
          /\ \A f \in debug_files :
                {in_file(f.lo, f.hi), out_file(f.lo, f.hi)} \subseteq debug_files)
    /\ [][debug_files \subseteq debug_files']_vars

JoinedUnits(lo, hi) == Join([j \in 1..(hi - lo + 1) |-> expected[lo + j - 1][1]], BlankLine)

\* C21: a bisected subset has two or more units; its halves are contiguous,
\* non-empty and disjoint, cover it in order and have floor(k/2) and ceil(k/2)
\* units; the text of the left half comes first in the result; no invocation
\* is on an empty subset; and once a chunk is resolved each of its units has
\* been resolved by exactly one invocation that did not bisect.
C21_BisectionPartition ==
    /\ \A i \in 1..Len(stack) : stack[i].lo <= stack[i].hi
    /\ \A i \in 1..(Len(stack) - 1) :
          LET p == stack[i]
              c == stack[i + 1]
              k == p.hi - p.lo + 1
          IN /\ k >= 2
             /\ p.phase \in {"left", "right"}
             /\ p.phase = "left" =>
                   /\ c.lo = p.lo
                   /\ c.hi - c.lo + 1 = k \div 2
                   /\ c.hi < p.hi
             /\ p.phase = "right" =>
                   /\ c.lo = p.lo + k \div 2
                   /\ c.hi = p.hi
                   /\ c.hi - c.lo + 1 = k - k \div 2
                   /\ p.left_text = JoinedUnits(p.lo, c.lo - 1)
    /\ \A i \in 1..Len(entries) : covered[i] <= 1
    /\ \A b \in 1..Len(translations) :
          /\ \A i \in (blocks[b][1] + 1)..(blocks[b][2] + 1) : covered[i] = 1
          /\ translations[b] = Strip(JoinedUnits(blocks[b][1] + 1, blocks[b][2] + 1))

\* a chunk of three units was bisected twice and is resolved
C21_Witness ==
    /\ Len(translations) >= 1
    /\ blocks[1] = <<0, 2>>
    /\ \E i \in 1..Len(log) : log[i].depth = 2 /\ log[i].lo = 2 /\ log[i].hi = 2
    /\ \E i \in 1..Len(log) : log[i].depth = 2 /\ log[i].lo = 3 /\ log[i].hi = 3
    /\ \E i \in 1..Len(log) : log[i].depth = 1 /\ log[i].lo = 1 /\ log[i].hi = 1

\* the context the driver computes for block b
BlockContext(b) == context_slice(entries, blocks[b][1], blocks[b][2], window, window)

\* the requests of block b that ask for a translation
TranslationRequests(b) ==
    {i \in 1..Len(log) : log[i].bi = b /\ log[i].kind \in {"attempt", "unit"}}

\* C22: every attempt of a chunk, at every depth, carries the prev and next
\* context of the whole chunk; the requests of a chunk follow one another and
\* its attempts and per-unit requests all carry the same summary; and while the
\* chunk is being refined the rolling summary is still that summary.
C22_ContextFixed ==
    /\ \A b \in {log[i].bi : i \in 1..Len(log)} :
          LET ctx == BlockContext(b)
          IN \A i \in 1..Len(log) :
                (log[i].bi = b /\ log[i].kind = "attempt") =>
                   /\ log[i].prev_ctx = ctx[1]
                   /\ log[i].next_ctx = ctx[2]
    /\ \A i \in 2..Len(log) :
          /\ log[i - 1].bi <= log[i].bi
          /\ (log[i - 1].bi = log[i].bi /\ log[i].kind # "summary")
                => (log[i - 1].kind # "summary" /\ log[i - 1].summary = log[i].summary)
    /\ pc = "refine" =>
          /\ \A i \in 1..Len(stack) : stack[i].summary = rolling_summary
          /\ \A i \in 1..Len(log) :
                (log[i].bi = bi /\ log[i].kind # "summary")
                   => log[i].summary = rolling_summary

\* the second chunk has a summary and was bisected, and the units of its left
\* half have a context of their own that is not the chunk's
C22_Witness ==
    /\ pc = "refine"
    /\ bi = 2
    /\ rolling_summary # <<>>
    /\ \E i \in TranslationRequests(2) :
          /\ log[i].kind = "attempt"
          /\ log[i].depth = 1
          /\ context_slice(entries, log[i].lo - 1, log[i].hi - 1, window, window)
                # BlockContext(2)

RECURSIVE CeilLog2(_)
\* the least d with 2^d >= n
CeilLog2(n) == IF n <= 1 THEN 0 ELSE 1 + CeilLog2((n + 1) \div 2)

\* C23: below the invocation on a chunk of n units there are never more than
\* ceil(log2(n)) levels of bisection: invocation i of the stack is at depth
\* i - 1, and no invocation and no request is at a depth above the bound.
C23_DepthBound ==
    /\ \A i \in 1..Len(stack) :
          /\ stack[i].depth = i - 1
          /\ stack[i].depth <= CeilLog2(stack[1].hi - stack[1].lo + 1)
    /\ \A i \in 1..Len(log) :
          log[i].kind \in {"attempt", "unit"} =>
             log[i].depth <= CeilLog2(blocks[log[i].bi][2] - blocks[log[i].bi][1] + 1)

\* a chunk of three units is refined at depth 2 = ceil(log2(3))
C23_Witness ==
    /\ pc = "refine"
    /\ stack[1].hi - stack[1].lo + 1 = 3
    /\ Len(stack) = 3
    /\ Top.depth = 2
    /\ Top.phase = "fallback"

RECURSIVE Levels(_, _)
\* ceil(log2(L / F)) for L >= 0 and F > 0, and 0 when L <= F: the least d
\* with F * 2^d >= L
Levels(L, F) == IF F >= L THEN 0 ELSE 1 + Levels(L, 2 * F)

\* the units and the text length of the chunk in work
ChunkUnits == stack[1].hi - stack[1].lo + 1
ChunkTextLen == seg_text_len(entries, stack[1].lo, stack[1].hi)

\* the chunk in work has 1, 2, 4 or 8 units of one length, not above the floor
EvenChunk ==
    /\ ChunkUnits \in {1, 2, 4, 8}
    /\ \A i \in stack[1].lo..stack[1].hi :
          /\ Len(entries[i].text) = Len(entries[stack[1].lo].text)
          /\ Len(entries[i].text) <= min_char_limit

\* C24 as stated: when every reply to an attempt is a Mismatch, per-unit mode
\* is entered after exactly ceil(log2(L / F)) levels of bisection, for a chunk
\* of text length L and a floor F > 0, whatever the lengths of the units.
C24_LevelsForAnyLengths ==
    (pc = "refine" /\ Top.phase = "fallback" /\ min_char_limit > 0)
       => Top.depth = Levels(ChunkTextLen, min_char_limit)

\* C24 amended: the count is exact for a chunk of 2^a units of one length that
\* is not above the floor; for any chunk, per-unit mode is entered on the first
\* subset of a branch that has one unit or a text length within the floor,
\* after at most ceil(log2(n)) levels.
C24_LevelsForEvenChunks ==
    (pc = "refine" /\ Top.phase = "fallback") =>
       /\ EvenChunk => Top.depth = Levels(ChunkTextLen, min_char_limit)
       /\ Top.depth <= CeilLog2(ChunkUnits)
       /\ \/ Top.lo = Top.hi
          \/ seg_text_len(entries, Top.lo, Top.hi) <= min_char_limit
       /\ \A i \in 1..(Len(stack) - 1) :
             /\ stack[i].lo < stack[i].hi
             /\ seg_text_len(entries, stack[i].lo, stack[i].hi) > min_char_limit

\* a chunk of four units of length 2 with floor 2 enters per-unit mode after
\* 2 = ceil(log2(8 / 2)) levels
C24_Witness ==
    /\ pc = "refine"
    /\ Top.phase = "fallback"
    /\ EvenChunk
    /\ ChunkUnits = 4
    /\ ChunkTextLen = 8
    /\ min_char_limit = 2
    /\ Top.depth = 2

\* the units of the per-unit requests of block b, in the order of the requests
UnitRequests(b) ==
    LET IsUnit(r) == r.bi = b /\ r.kind = "unit"
        reqs == SelectSeq(log, IsUnit)
    IN [i \in 1..Len(reqs) |-> reqs[i].lo]

C26_TruncationExact ==
    (last.kind = "summary" /\ last.reply = "text" /\ last.text_len > summary_max_chars)
       => Len(rolling_summary) = summary_max_chars

\* the summary requests issued so far
SummaryRequests == {i \in 1..Len(log) : log[i].kind = "summary"}

\* C27: the requests of the first chunk carry an empty summary; a summary
\* request comes right after the last translation request of a chunk that is
\* not the last one and right before the first request of the next chunk; the
\* requests pass from one chunk to the next only through a summary request; a
\* run that returns its translations has issued one summary request for each
\* chunk but the last; and the rolling summary changes only in the step of a
\* summary request.
C27_SummaryTiming ==
    /\ [](/\ \A i \in 1..Len(log) :
              /\ (log[i].bi = 1 /\ log[i].kind # "summary") => log[i].summary = <<>>
              /\ log[i].kind = "summary" =>
                    /\ log[i].bi < Len(blocks)
                    /\ i > 1
                    /\ log[i - 1].bi = log[i].bi
                    /\ log[i - 1].kind # "summary"
                    /\ i < Len(log) =>
                          /\ log[i + 1].bi = log[i].bi + 1
                          /\ log[i + 1].kind = "attempt"
                          /\ log[i + 1].depth = 0
              /\ (i > 1 /\ log[i].bi # log[i - 1].bi) =>
                    /\ log[i - 1].kind = "summary"
                    /\ log[i].bi = log[i - 1].bi + 1
          /\ (Returned /\ result.list # <<>>) =>
                {log[i].bi : i \in SummaryRequests} = 1..(Len(blocks) - 1)
          /\ \A i \in SummaryRequests : \A j \in SummaryRequests :
                log[i].bi = log[j].bi => i = j
          /\ (log = <<>> \/ SummaryRequests = {}) => rolling_summary = <<>>)
    /\ [][rolling_summary' # rolling_summary =>
             /\ Len(log') = Len(log) + 1
             /\ log'[Len(log')].kind = "summary"]_vars

\* a run over three chunks has returned after two summary requests that both
\* changed the summary
C27_Witness ==
    /\ Returned
    /\ Len(blocks) = 3
    /\ Cardinality(SummaryRequests) = 2
    /\ \A i \in SummaryRequests : log[i].summary # rolling_summary
    /\ \E i \in 1..Len(log) :
          log[i].bi = 2 /\ log[i].kind = "attempt" /\ log[i].summary # <<>>

\* C28: a step issues at most one request and has its reply before the step
\* ends; the requests of chunk N all come before the requests of chunk N + 1;
\* and within a chunk a later request is either inside the units of an earlier
\* one or entirely to its right, so every request for a left half comes before
\* the first request for the right half.
C28_Sequential ==
    /\ [](\A i \in 1..Len(log) : \A j \in 1..Len(log) :
            i < j =>
               /\ log[i].bi <= log[j].bi
               /\ (log[i].bi = log[j].bi /\ log[j].kind # "summary") =>
                     \/ log[j].lo > log[i].hi
                     \/ /\ log[i].lo <= log[j].lo
                        /\ log[j].hi <= log[i].hi
                        /\ log[i].depth <= log[j].depth)
    /\ [][/\ Len(log') <= Len(log) + 1
          /\ SubSeq(log', 1, Len(log)) = log]_vars

\* the first chunk was bisected and both halves were asked for, then the second
\* chunk was asked for
C28_Witness ==
    /\ \E i \in 1..Len(log) : \E j \in 1..Len(log) : \E k \in 1..Len(log) :
          /\ i < j /\ j < k
          /\ log[i].bi = 1 /\ log[i].depth = 1
          /\ log[j].bi = 1 /\ log[j].depth = 1 /\ log[j].lo > log[i].hi
          /\ log[k].bi = 2 /\ log[k].kind = "attempt"

\* C29: of two consecutive chunks, the first unit of the later one did not
\* fit in the earlier one: the earlier chunk's size plus that unit's text length
\* plus 2 is above the budget.
C29_GreedyMaximal ==
    pc = "chunked" =>
       \A k \in 1..(Len(blocks) - 1) :
          ChunkSize(entries, blocks[k]) + Len(entries[blocks[k + 1][1] + 1].text) + 2
             > effective_char_limit

\* a chunk of two units fills the budget exactly, so that even an empty third
\* unit starts a new chunk
C29_Witness ==
    /\ pc = "chunked"
    /\ Len(blocks) = 2
    /\ blocks[1] = <<0, 1>>
    /\ ChunkSize(entries, blocks[1]) = effective_char_limit
    /\ Len(entries[3].text) = 0
    /\ \E n \in 1..Len(entries) : Len(entries[n].text) > 0

\* C30: a run that is asked to stop while chunk N is being refined finishes
\* chunk N and issues no request for chunk N + 1 or a later chunk.
C30_CancelBetweenChunks ==
    cancel_requested # 0 =>
       /\ bi <= cancel_requested
       /\ \A i \in 1..Len(log) : log[i].bi <= cancel_requested

\* the requests of kind `kind` issued for block b
RequestsOf(b, kind) == {i \in 1..Len(log) : log[i].bi = b /\ log[i].kind = kind}

\* C31: for a chunk of n units at most 2n - 1 attempts and at most n per-unit
\* requests are issued (at most 3n - 1 translation requests), no subset is
\* attempted twice and no unit gets a second per-unit request.
C31_RequestsBounded ==
    \A b \in {log[i].bi : i \in 1..Len(log)} :
       LET n == blocks[b][2] - blocks[b][1] + 1
           attempts == RequestsOf(b, "attempt")
           units == RequestsOf(b, "unit")
       IN /\ Cardinality(attempts) <= 2 * n - 1
          /\ Cardinality(units) <= n
          /\ Cardinality(attempts) + Cardinality(units) <= 3 * n - 1
          /\ \A i \in attempts : \A j \in attempts :
                (log[i].lo = log[j].lo /\ log[i].hi = log[j].hi) => i = j
          /\ \A i \in units : \A j \in units : log[i].lo = log[j].lo => i = j

\* a chunk of three units has used up both bounds: 5 attempts and 3 per-unit
\* requests
C31_Witness ==
    /\ Len(translations) >= 1
    /\ blocks[1] = <<0, 2>>
    /\ Cardinality(RequestsOf(1, "attempt")) = 5
    /\ Cardinality(RequestsOf(1, "unit")) = 3

\* C32: a per-unit request carries the summary of its chunk and an empty prev
\* and next context, an attempt carries the prev and next context of its chunk,
\* and a per-unit reply is accepted exactly when it is a non-empty text that is
\* not a refusal line, whatever the number of labels in it.
C32_PerUnitContext ==
    /\ \A i \in 1..Len(log) :
          /\ log[i].kind = "unit" =>
                /\ log[i].prev_ctx = <<>>
                /\ log[i].next_ctx = <<>>
                /\ \E j \in 1..(i - 1) :
                      /\ log[j].bi = log[i].bi
                      /\ log[j].kind = "attempt"
                      /\ log[j].depth = 0
                      /\ log[j].summary = log[i].summary
          /\ log[i].kind = "attempt" =>
                /\ log[i].prev_ctx = BlockContext(log[i].bi)[1]
                /\ log[i].next_ctx = BlockContext(log[i].bi)[2]
    /\ last.kind = "unit" =>
          (last.outcome = "ok" <=> (last.reply = "text" /\ ~last.refusal_line))

\* the per-unit request of the second chunk, whose attempt had a prev context
\* and a summary, was answered by a text without a label and accepted it
C32_Witness ==
    /\ last.kind = "unit"
    /\ last.outcome = "ok"
    /\ ~last.all_marked
    /\ log[Len(log)].bi = 2
    /\ log[Len(log)].summary # <<>>
    /\ BlockContext(2)[1] # <<>>

\* --------------------------------------- the effective budget on its own
\* values of max_char_limit, summary_max_chars and min_char_limit as
\* cfg.get(...) hands them over: run_pipeline passes them on as they are read
InitBudget ==
    /\ \E n \in 1..2 : entries = MakeEntries([i \in 1..n |-> 1], UnitChar, 1)
    /\ entriesB = <<>>
    /\ char_limit \in {0, 400, CharLimitCap - 1, CharLimitCap, CharLimitCap + 1, 9000}
    /\ summary_max_chars \in {-1, 0, 1, 500, CharLimitCap, 8000}
    /\ min_char_limit \in {0, 400, CharLimitCap - 1, CharLimitCap}
    /\ effective_char_limit = 0
    /\ window = ContextWindow
    /\ pc = "call"
    /\ InitRest

SpecBudget == InitBudget /\ [][Start]_vars

\* C33 as stated: after the driver has built the blocks, the budget it used is
\* max(min_char_limit, min(char_limit, 7500) - summary_max_chars), it is at
\* least min_char_limit and at most 7500, for every char_limit and
\* summary_max_chars and every min_char_limit <= 7500.
C33_BudgetWithinCap ==
    (pc # "call" /\ min_char_limit <= CharLimitCap) =>
        /\ effective_char_limit =
              Max(min_char_limit, Min(char_limit, CharLimitCap) - summary_max_chars)
        /\ effective_char_limit >= min_char_limit
        /\ effective_char_limit <= CharLimitCap

\* C33 amended: the same for every summary_max_chars >= 0.
C33_BudgetWithinCapNonNegative ==
    (pc # "call" /\ min_char_limit <= CharLimitCap /\ summary_max_chars >= 0) =>
        /\ effective_char_limit =
              Max(min_char_limit, Min(char_limit, CharLimitCap) - summary_max_chars)
        /\ effective_char_limit >= min_char_limit
        /\ effective_char_limit <= CharLimitCap

\* a limit above the cap with a summary allowance: the budget is the cap less
\* the allowance and lies strictly between the floor and the cap
C33_Witness ==
    /\ pc # "call"
    /\ char_limit > CharLimitCap
    /\ summary_max_chars = 500
    /\ min_char_limit = 400
    /\ effective_char_limit = CharLimitCap - 500
    /\ blocks # <<>>

\* the records of the output file of a run that wrote one
OutputFile == final_entries(entries, translated_chunks)

first_backup_always(d, candidate) == candidate

RECURSIVE backup_path(_, _)
\* while backup_path.exists(): backup_path = ...f".old.{counter}"; counter += 1
backup_path(d, candidate) ==
    IF d[candidate] # "absent" THEN backup_path(d, candidate + 1) ELSE candidate

\* how a rename or an unlink ends
OSOutcomes == {"ok", "OSError"}
\* open(out_path, "w") raises before the file exists, a write raises after, or
\* all records are written
WriteOutcomes == {"ok", "open_raises", "write_raises"}

\* run_pipeline is about to write a translation; the folder holds any of a
\* previous output and its first backups
InitBackup ==
    /\ AtRest("write")
    /\ pc = "write"
    /\ \E present \in SUBSET (Names \ {MaxBackups + 1, MaxBackups + 2}) :
          disk = [k \in Names |->
                     IF k \notin present THEN "absent"
                     ELSE IF k = out_path THEN "previous" ELSE "backup"]

\* Step 4 of run_pipeline from "if out_path.exists()" to the end of the write,
\* on the folder d: how it ends and what the folder holds then
write_step(d, rn, wr, ul) ==
    LET exists == d[out_path] # "absent"
        \* out_path.rename(backup_path): the file moves and replaces what is there
        moved == IF exists
                 THEN [d EXCEPT ![backup_path(d, 1)] = d[out_path],
                                ![out_path] = "absent"]
                 ELSE d
    IN IF exists /\ rn = "OSError"
       THEN [pc |-> "stopped", disk |-> d]
       ELSE IF wr = "ok"
       THEN [pc |-> "written", disk |-> [moved EXCEPT ![out_path] = "new"]]
       ELSE [pc |-> "write_failed",
             disk |-> IF wr = "write_raises" /\ ul = "OSError"
                      THEN [moved EXCEPT ![out_path] = "incomplete"]
                      ELSE moved]

WriteOutput ==
    /\ pc = "write"
    /\ \E rn \in OSOutcomes, wr \in WriteOutcomes, ul \in OSOutcomes :
          LET w == write_step(disk, rn, wr, ul)
          IN pc' = w.pc /\ disk' = w.disk
    /\ UNCHANGED <<run_vars, files, file_pos, file_status, cleaned, tmp_files,
                   raw_text, max_width, max_lines, formatted, tagged, untagged_ids,
                   allowed_src_langs_ordered, asked, menu, chosen, track_id>>

\* the next file of the batch has the same output path
SameTarget ==
    /\ pc \in {"written", "write_failed"}
    /\ disk[MaxBackups + 2] = "absent"
    /\ pc' = "write"
    /\ UNCHANGED <<run_vars, disk, files, file_pos, file_status, cleaned, tmp_files,
                   raw_text, max_width, max_lines, formatted, tagged, untagged_ids,
                   allowed_src_langs_ordered, asked, menu, chosen, track_id>>

SpecBackup == InitBackup /\ [][WriteOutput \/ SameTarget]_vars

\* the first name among '.old', '.old.1', ... that does not exist
FirstFree(d) ==
    CHOOSE k \in (Names \ {out_path}) :
        d[k] = "absent" /\ \A j \in 1..(k - 1) : d[j] # "absent"

\* C35: a write step that finds the target existing moves it to the first
\* non-existing backup name before anything is written to the target; no write
\* step changes a backup that exists; and a write step whose rename fails
\* leaves every file, the target included, as it was.
C35_NeverOverwritten ==
    [][pc = "write" =>
          /\ (disk[out_path] # "absent" /\ pc' # "stopped") =>
                disk'[FirstFree(disk)] = disk[out_path]
          /\ \A k \in (Names \ {out_path}) : disk[k] # "absent" => disk'[k] = disk[k]
          /\ pc' = "stopped" => (disk[out_path] # "absent" /\ disk' = disk)
       ]_vars

\* '.old' existed, the previous output went to '.old.1' and the translation
\* was written to the target
C35_Witness ==
    /\ pc = "written"
    /\ disk[out_path] = "new"
    /\ disk[1] = "backup"
    /\ disk[2] = "previous"

\* ------------------------------------------------- the loop over the batch
MaxFiles == 2

\* an .srt file in an allowed language that parses, translates and is written
GoodSrt ==
    [exists |-> TRUE, suffix |-> "srt", lang |-> "allowed", tools |-> TRUE,
     select |-> "track", extra |-> FALSE, parse |-> "entries",
     translate |-> "list", rename |-> "ok", write |-> "ok"]

\* an .mkv file whose selection extracts the chosen track and one more
GoodMkv == [GoodSrt EXCEPT !.suffix = "mkv", !.extra = TRUE]

\* the files a batch is drawn from: what each turn of the loop will meet
BatchFiles ==
    {GoodSrt, GoodMkv,
     [GoodSrt EXCEPT !.exists = FALSE],
     [GoodSrt EXCEPT !.lang = "none"],
     [GoodSrt EXCEPT !.lang = "other"],
     [GoodSrt EXCEPT !.suffix = "txt"],
     [GoodMkv EXCEPT !.tools = FALSE],
     [GoodMkv EXCEPT !.select = "raises"],
     [GoodMkv EXCEPT !.select = "none"],
     [GoodSrt EXCEPT !.parse = "raises"],
     [GoodMkv EXCEPT !.parse = "empty"],
     [GoodMkv EXCEPT !.translate = "raises"],
     [GoodSrt EXCEPT !.translate = "empty"],
     [GoodSrt EXCEPT !.rename = "OSError"],
     [GoodMkv EXCEPT !.write = "write_raises"]}

\* a `continue` or a `return` in the loop body: nothing was written
Leave(how, status) == [leave |-> how, status |-> status, disk |-> disk]

\* a loop body that goes on to the next file when the translation is empty
from_parse_lenient(f) ==
    IF f.parse = "raises" THEN Leave("return", "parse failed")
    ELSE IF f.parse = "empty" THEN Leave("return", "parse failed")
    ELSE IF f.translate = "raises" THEN Leave("return", "translation failed")
    ELSE IF f.translate = "empty" THEN Leave("continue", "translation empty")
    ELSE LET w == write_step(disk, f.rename, f.write, "ok")
         IN IF w.pc = "stopped" THEN Leave("return", "rename failed")
            ELSE [leave |-> "end", status |-> w.pc, disk |-> w.disk]

\* the loop body from Step 1 on
from_parse(f) ==
    IF f.parse = "raises" THEN Leave("return", "parse failed")
    ELSE IF f.parse = "empty" THEN Leave("return", "parse failed")
    ELSE IF f.translate = "raises" THEN Leave("return", "translation failed")
    ELSE IF f.translate = "empty" THEN Leave("return", "translation empty")
    ELSE LET w == write_step(disk, f.rename, f.write, "ok")
         IN IF w.pc = "stopped" THEN Leave("return", "rename failed")
            ELSE [leave |-> "end", status |-> w.pc, disk |-> w.disk]

\* the loop body inside the try block
in_try(f) ==
    IF f.suffix = "srt"
    THEN IF f.lang = "none" THEN Leave("continue", "undetectable")
         ELSE IF f.lang # "allowed" THEN Leave("continue", "disallowed")
         ELSE from_parse(f)
    ELSE IF f.suffix = "mkv"
    THEN IF ~f.tools THEN Leave("continue", "no tools")
         ELSE IF f.select = "raises" THEN Leave("continue", "selection failed")
         ELSE IF f.select = "none" THEN Leave("continue", "no track")
         ELSE from_parse(f)
    ELSE Leave("continue", "unsupported")

\* the temporary files select_mkv_subtitle has returned for file i:
\* cleanup_paths, the working file among them
cleanup_paths(f, i) ==
    IF f.suffix = "mkv" /\ f.tools /\ f.select \in {"none", "track"}
    THEN (IF f.extra THEN {<<i, "other">>} ELSE {})
         \cup (IF f.select = "track" THEN {<<i, "working">>} ELSE {})
    ELSE {}

\* for p in cleanup_paths: if p != working_srt: p.unlink(missing_ok=True)
finally(tmp, f, i) == tmp \ (cleanup_paths(f, i) \ {<<i, "working">>})

\* the files of the batch all have the same output path; nothing is written yet
InitBatch ==
    /\ AtRest("batch")
    /\ pc = "batch"
    /\ \E n \in 1..MaxFiles : files \in [1..n -> BatchFiles]
    /\ file_pos = 1
    /\ file_status = [i \in 1..Len(files) |-> "pending"]
    /\ cleaned = [i \in 1..Len(files) |-> FALSE]
    /\ tmp_files = {}

\* one turn of "for f in files"
ProcessFile ==
    /\ pc = "batch"
    /\ file_pos \in 1..Len(files)
    /\ LET i == file_pos
           f == files[i]
           t == IF ~f.exists THEN Leave("continue", "missing") ELSE in_try(f)
           made == IF f.exists THEN tmp_files \cup cleanup_paths(f, i) ELSE tmp_files
           kept == IF t.status = "written" /\ f.suffix = "mkv"
                   THEN made \ {<<i, "working">>}
                   ELSE made
       IN /\ file_status' = [file_status EXCEPT ![i] = t.status]
          /\ cleaned' = [cleaned EXCEPT ![i] = f.exists]
          /\ tmp_files' = IF f.exists THEN finally(kept, f, i) ELSE kept
          /\ disk' = t.disk
          /\ IF t.leave = "return"
             THEN pc' = "batch_returned" /\ file_pos' = file_pos
             ELSE pc' = pc /\ file_pos' = i + 1
    /\ UNCHANGED <<run_vars, files, raw_text, max_width, max_lines, formatted, tagged, untagged_ids,
                   allowed_src_langs_ordered, asked, menu, chosen, track_id>>

\* the loop has run out of files
EndOfBatch ==
    /\ pc = "batch"
    /\ file_pos > Len(files)
    /\ pc' = "batch_done"
    /\ UNCHANGED <<run_vars, pipeline_vars>>

SpecBatch == InitBatch /\ [][ProcessFile \/ EndOfBatch]_vars

Rejected(f) ==
    \/ ~f.exists
    \/ f.suffix = "srt" /\ f.lang # "allowed"
    \/ f.suffix = "txt"
    \/ f.suffix = "mkv" /\ (~f.tools \/ f.select # "track")

Failing(f) == ~Rejected(f) /\ (f.parse # "entries" \/ f.translate # "list")

\* C36: a file that was rejected before its translation (missing, language
\* undetectable or not allowed, unsupported type, no usable MKV track) leaves
\* the loop at the next file, and when the loop has run out every file has had
\* its turn unless an earlier one ended the run; a file whose parse fails or
\* whose translation fails or is empty ends the run with every later file
\* untouched, after the cleanup of its temporary files has run.
C36_BatchAbort ==
    \A i \in 1..Len(files) :
       /\ (file_status[i] # "pending" /\ Rejected(files[i])) =>
             /\ file_pos > i
             /\ cleaned[i] = files[i].exists
             /\ \A k \in {"other", "working"} : <<i, k>> \notin tmp_files
       /\ (file_status[i] # "pending" /\ Failing(files[i])) =>
             /\ pc = "batch_returned"
             /\ file_pos = i
             /\ \A j \in (i + 1)..Len(files) : file_status[j] = "pending"
             /\ cleaned[i]
             /\ <<i, "other">> \notin tmp_files
       /\ pc = "batch_done" => file_status[i] # "pending"

\* the first file had no usable track and was skipped, the second file's
\* translation failed after its selection had extracted two tracks: the run
\* has ended and the spare track of the second file is gone
C36_Witness ==
    /\ Len(files) = 2
    /\ file_status = <<"no track", "translation failed">>
    /\ files[2].extra
    /\ pc = "batch_returned"
    /\ cleaned[2]
    /\ tmp_files = {<<2, "working">>}

\* ------------------------------------------------------------- reformat.py
MaxTextLen == 5
MaxWidth == 3
MaxLines == 2

RECURSIVE SplitWordsAcc(_, _)
SplitWordsAcc(t, cur) ==
    IF t = <<>> THEN (IF cur = <<>> THEN <<>> ELSE <<cur>>)
    ELSE IF IsSpace(Head(t))
         THEN (IF cur = <<>> THEN <<>> ELSE <<cur>>) \o SplitWordsAcc(Tail(t), <<>>)
         ELSE SplitWordsAcc(Tail(t), Append(cur, Head(t)))

\* str.split(): the runs of characters that are not whitespace
SplitWords(t) == SplitWordsAcc(t, <<>>)

\* a test that forgets the blank between the line and the word
fits_without_blank(curr, w, width) == Len(curr) + Len(w) <= width

\* len(curr) + 1 + len(w) <= width
fits(curr, w, width) == Len(curr) + 1 + Len(w) <= width

RECURSIVE wrap_loop(_, _, _, _)
\* for w in words: ... ; if curr: lines.append(curr)
wrap_loop(words, lines, curr, width) ==
    IF words = <<>> THEN (IF curr # <<>> THEN Append(lines, curr) ELSE lines)
    ELSE LET w == Head(words)
         IN IF curr = <<>> THEN wrap_loop(Tail(words), lines, w, width)
            ELSE IF fits(curr, w, width)
            THEN wrap_loop(Tail(words), lines, curr \o <<"s">> \o w, width)
            ELSE wrap_loop(Tail(words), Append(lines, curr), w, width)

soft_wrap(t, width) == wrap_loop(SplitWords(t), <<>>, <<>>, width)

RECURSIVE wrap_segments(_, _)
\* for seg in text.split("\n"): lines.extend(soft_wrap(seg, max_width))
wrap_segments(segs, width) ==
    IF segs = <<>> THEN <<>>
    ELSE soft_wrap(Head(segs), width) \o wrap_segments(Tail(segs), width)

RECURSIVE merge_loop(_, _, _)
\* for l in lines: merge into merged[-1] when it fits, else merged.append(l)
merge_loop(lines, merged, width) ==
    IF lines = <<>> THEN merged
    ELSE LET l == Head(lines)
             k == Len(merged)
         IN IF merged = <<>> THEN merge_loop(Tail(lines), <<l>>, width)
            ELSE IF fits(merged[k], l, width)
            THEN merge_loop(Tail(lines),
                            [merged EXCEPT ![k] = merged[k] \o <<"s">> \o l], width)
            ELSE merge_loop(Tail(lines), Append(merged, l), width)

reformat_subtitle_text(t, width, nlines) ==
    \* text.replace("\r\n", "\n").strip()
    LET stripped == Strip(Join(Split(t, <<"R", "n">>), NL))
        lines == wrap_segments(Split(stripped, NL), width)
        merged == merge_loop(lines, <<>>, width)
    IN IF Len(lines) <= nlines THEN Join(lines, NL)
       ELSE Join(SubSeq(merged, 1, Min(Len(merged), nlines)), NL)

InitReformat ==
    /\ AtRest("reformat")
    /\ pc = "reformat"
    /\ raw_text \in SeqsUpTo({"a", "s", "n", "R"}, MaxTextLen)
    /\ max_width \in 1..MaxWidth
    /\ max_lines \in 1..MaxLines
    /\ formatted = <<>>

Reformat ==
    /\ pc = "reformat"
    /\ formatted' = reformat_subtitle_text(raw_text, max_width, max_lines)
    /\ pc' = "reformatted"
    /\ UNCHANGED <<run_vars, disk, files, file_pos, file_status, cleaned, tmp_files,
                   raw_text, max_width, max_lines, tagged, untagged_ids,
                   allowed_src_langs_ordered, asked, menu, chosen, track_id>>

SpecReformat == InitReformat /\ [][Reformat]_vars

\* the lines of the text returned
FormattedLines == Split(formatted, NL)

IsPrefix(s, t) == Len(s) <= Len(t) /\ SubSeq(t, 1, Len(s)) = s

MaxTracks == 3

Langs == {"en", "de", "fr"}

\* [c for c in candidates if c.get("lang_norm") is not None and
\*  c["lang_norm"] in allowed_langs]
filter_allowed_candidates(candidates, allowed_langs) ==
    SelectSeq(candidates,
              LAMBDA c : \E k \in 1..Len(allowed_langs) : allowed_langs[k] = c.lang_norm)

Nothing == [asked |-> FALSE, menu |-> <<>>, chosen |-> 0, track_id |-> 0]

\* choose_mkv_subtitle_interactive: untagged tracks whose language was
\* detected come first, then the tagged tracks, filtered by the allowed list;
\* choice is the number the user enters, 0 for Enter
choose_mkv_subtitle_interactive(tagged_subs, ids, det, allowed_langs, choice, extract) ==
    LET detected == SelectSeq([k \in 1..Len(ids) |->
                                  [id |-> ids[k], lang_norm |-> det[k],
                                   source |-> "untagged+detected"]],
                              LAMBDA c : c.lang_norm # "none")
        candidates == detected \o tagged_subs
        allowed == filter_allowed_candidates(candidates, allowed_langs)
        shown == [k \in 1..Len(allowed) |-> allowed[k].id]
    IN IF allowed = <<>> THEN Nothing
       ELSE IF choice = 0
       THEN [asked |-> TRUE, menu |-> shown, chosen |-> 0, track_id |-> 0]
       ELSE LET selected == allowed[choice]
            IN [asked |-> TRUE, menu |-> shown, chosen |-> selected.id,
                \* a tagged track is extracted and validated now
                track_id |-> IF selected.source = "tagged" /\ extract # "ok"
                             THEN 0
                             ELSE selected.id]

RECURSIVE fast_path_lowest_first(_, _, _, _)
\* a fast path that tries the allowed languages from the last to the first
fast_path_lowest_first(tagged_subs, langs, choice, extract) ==
    IF langs = <<>> THEN Nothing
    ELSE LET matches == filter_allowed_candidates(tagged_subs, <<langs[Len(langs)]>>)
         IN IF matches = <<>>
            THEN fast_path_lowest_first(tagged_subs, SubSeq(langs, 1, Len(langs) - 1),
                                        choice, extract)
            ELSE IF Len(matches) = 1
            THEN [asked |-> FALSE, menu |-> <<>>, chosen |-> matches[1].id,
                  track_id |-> IF extract = "ok" THEN matches[1].id ELSE 0]
            ELSE choose_mkv_subtitle_interactive(matches, <<>>, <<>>,
                                                 allowed_src_langs_ordered,
                                                 choice, extract)

RECURSIVE fast_path(_, _, _, _)
\* for pref_lang in allowed_src_langs_ordered: the first language with a match
\* decides; langs is what is left of the list
fast_path(tagged_subs, langs, choice, extract) ==
    IF langs = <<>> THEN Nothing
    ELSE LET matches == filter_allowed_candidates(tagged_subs, <<Head(langs)>>)
         IN IF matches = <<>>
            THEN fast_path(tagged_subs, Tail(langs), choice, extract)
            ELSE IF Len(matches) = 1
            THEN [asked |-> FALSE, menu |-> <<>>, chosen |-> matches[1].id,
                  track_id |-> IF extract = "ok" THEN matches[1].id ELSE 0]
            ELSE choose_mkv_subtitle_interactive(matches, <<>>, <<>>,
                                                 allowed_src_langs_ordered,
                                                 choice, extract)

select_mkv_subtitle(det, choice, extract) ==
    IF tagged # <<>> /\ untagged_ids = <<>>
    THEN fast_path(tagged, allowed_src_langs_ordered, choice, extract)
    ELSE choose_mkv_subtitle_interactive(tagged, untagged_ids, det,
                                         allowed_src_langs_ordered, choice, extract)

\* an MKV with up to MaxTracks tagged subtitle tracks and at most one without
\* a usable tag, as probe_mkv_subtitles reports them; the allowed languages
\* are one or two different languages, best first
InitMkv ==
    /\ AtRest("mkv")
    /\ pc = "select"
    /\ \E n \in 0..MaxTracks : \E lang \in [1..n -> Langs] :
          tagged = [k \in 1..n |-> [id |-> k, lang_norm |-> lang[k], source |-> "tagged"]]
    /\ untagged_ids \in {<<>>, <<MaxTracks + 1>>}
    /\ allowed_src_langs_ordered \in
          {<<a>> : a \in Langs} \cup {p \in Langs \X Langs : p[1] # p[2]}
    /\ asked = FALSE
    /\ menu = <<>>
    /\ chosen = 0
    /\ track_id = 0

\* select_mkv_subtitle; a number outside the menu is asked for again
SelectSubtitle ==
    /\ pc = "select"
    /\ \E det \in [1..Len(untagged_ids) -> Langs \cup {"none"}],
          choice \in 0..(MaxTracks + 1), extract \in {"ok", "fails"} :
          LET offered == select_mkv_subtitle(det, 0, extract).menu
              r == select_mkv_subtitle(det, choice, extract)
          IN /\ choice <= Len(offered)
             /\ asked' = r.asked
             /\ menu' = r.menu
             /\ chosen' = r.chosen
             /\ track_id' = r.track_id
    /\ pc' = "selected"
    /\ UNCHANGED <<run_vars, disk, files, file_pos, file_status, cleaned, tmp_files,
                   raw_text, max_width, max_lines, formatted, tagged, untagged_ids,
                   allowed_src_langs_ordered>>

SpecMkv == InitMkv /\ [][SelectSubtitle]_vars

\* the ids of the tagged tracks of a language
TracksOf(l) == {tagged[k].id : k \in {j \in 1..Len(tagged) : tagged[j].lang_norm = l}}

\* the positions of the allowed list whose language has a tagged track
Available == {k \in 1..Len(allowed_src_langs_ordered) :
                 TracksOf(allowed_src_langs_ordered[k]) # {}}

\* C38: when the MKV has subtitle tracks and all of them are tagged, the
\* tracks considered are those of the first allowed language that has a track:
\* one such track is picked without a menu, several make the menu exactly
\* those tracks and the pick is one of them or none, no track is picked when
\* no allowed language has a track, and the track returned is the pick or None.
C38_PriorityAutoSelection ==
    (pc = "selected" /\ tagged # <<>> /\ untagged_ids = <<>>) =>
        IF Available = {}
        THEN ~asked /\ chosen = 0 /\ track_id = 0
        ELSE LET top == allowed_src_langs_ordered[CHOOSE k \in Available :
                                                     \A j \in Available : k <= j]
                 best == TracksOf(top)
             IN /\ Cardinality(best) = 1 => (~asked /\ chosen \in best)
                /\ Cardinality(best) > 1 =>
                      /\ asked
                      /\ {menu[k] : k \in 1..Len(menu)} = best
                      /\ Len(menu) = Cardinality(best)
                      /\ chosen \in best \cup {0}
                /\ track_id \in {0, chosen}

\* the best allowed language has no track, the second has exactly one among
\* tracks of other languages: it was picked without a menu and returned
C38_Witness ==
    /\ pc = "selected"
    /\ untagged_ids = <<>>
    /\ Len(tagged) = 3
    /\ Len(allowed_src_langs_ordered) = 2
    /\ TracksOf(allowed_src_langs_ordered[1]) = {}
    /\ TracksOf(allowed_src_langs_ordered[2]) = {2}
    /\ ~asked
    /\ chosen = 2
    /\ track_id = 2

====
